---- MODULE Spec2Model ----
(***************************************************************************)
(* Model of demo/demo_multifile.py: the batch driver `main`, the per-file  *)
(* parse driver `do_parse`, `prepare_env` and `read_fn`.                   *)
(*                                                                         *)
(* A path is a sequence of segments; a segment (a file or directory name)  *)
(* is the sequence of its dot-separated parts, so "x.tar.pdf" is           *)
(* <<"x","tar","pdf">> and /out/a/x/auto is                                *)
(* << <<"out">>, <<"a">>, <<"x">>, <<"auto">> >>.                          *)
(* A file's content is a sequence of tokens.  The external pipeline        *)
(* (UNIPipe/TXTPipe/OCRPipe), the reader/writer and the file system are    *)
(* the environment: each of their calls either succeeds or raises.         *)
(***************************************************************************)
EXTENDS Integers, Sequences, FiniteSets, TLC

\* ------------------------------------------------------------- bounds
\* Largest number of PDF files under the input directory.
MaxDocs == 2
\* Number of times main is run on the same input and output root.
MaxRuns == 2
\* Number of environment failures (I/O errors, pipeline exceptions) in a behaviour.
MaxFaults == 1

VARIABLES
    pc,               \* position in main / do_parse
    caller,           \* "main": do_parse called from main's loop; "direct": called directly
    exit_code,        \* status of exit(), 0 while the process runs
    in_tree,          \* files below the input root
    file_path,        \* main's argument: the input root or one file
    parse_method,     \* main's / do_parse's argument
    use_inside_model, \* model_config.__use_inside_model__
    fs_files,         \* output file system: path -> content
    fs_dirs,          \* output file system: directories
    file_paths,       \* main: discovered files, in discovery order
    out_dirs,         \* main: output directory of each discovered file
    result,           \* main: the run summary
    idx,              \* main: position of the loop in file_paths
    printed,          \* the summary lines logged so far
    model_list,       \* main's model_list / do_parse's parameter
    elapsed,          \* time.time() - begin_time
    args,             \* do_parse's parameters output_dir, pdf_file_name, pdf_bytes, flags
    orig_model_list,  \* do_parse: the copy that is dumped to model.json
    pipe,             \* do_parse: the pipeline object
    trace,            \* history: pipeline calls and writes of the current do_parse call
    attempted,        \* history: loop positions whose processing started in this run
    raised,           \* history: loop positions whose processing raised in this run
    dp_started,       \* history: loop positions whose do_parse was entered in this run
    cache_state,      \* history: what the cache lookup of the current document found
    cache_loaded,     \* history: the list the cache lookup of the current document loaded
    failed_at,        \* history: the stage at which the current document raised
    created_files,    \* history: files created by this run
    created_dirs,     \* history: directories created by this run
    wrote,            \* history: (path, loop position) of every write of this run
    prev_model,       \* history: file -> records its model.json holds from the last completed run
    faults,           \* number of environment failures so far
    runs              \* number of the current run of main

vars == <<pc, caller, exit_code, in_tree, file_path, parse_method, use_inside_model,
          fs_files, fs_dirs, file_paths, out_dirs, result, idx, printed, model_list,
          elapsed, args, orig_model_list, pipe, trace, attempted, raised, dp_started,
          cache_state, cache_loaded, failed_at, created_files, created_dirs, wrote,
          prev_model, faults, runs>>

\* ------------------------------------------------------------- paths
Seg(s) == <<s>>

\* --out_root
OutRoot == <<Seg("out")>>

\* The files that can lie below the input root: x.pdf, a/x.pdf, a/x.tar.pdf, n.txt.
Universe ==
    { [dir |-> <<>>, name |-> <<"x", "pdf">>],
      [dir |-> <<Seg("a")>>, name |-> <<"x", "pdf">>],
      [dir |-> <<Seg("a")>>, name |-> <<"x", "tar", "pdf">>],
      [dir |-> <<>>, name |-> <<"n", "txt">>] }

\* glob.glob(os.path.join(file_path, "**/*.pdf"), recursive=True)
GlobMatch(f) == Len(f.name) >= 2 /\ f.name[Len(f.name)] = "pdf"

Glob(tree) == {f \in tree : GlobMatch(f)}

\* The orders in which glob can return the files of S.
Orders(S) ==
    {s \in [1..Cardinality(S) -> S] : \A i, j \in 1..Cardinality(S) : i # j => s[i] # s[j]}

\* Path(pdf_path).stem: the name without its last suffix.
StemFirstPart(name) == <<name[1]>>

Stem(name) == IF Len(name) > 1 THEN SubSeq(name, 1, Len(name) - 1) ELSE name

\* os.path.relpath(os.path.dirname(f), file_path): "." for a file of the root itself.
RelPath(f) == IF f.dir = <<>> THEN <<Seg(".")>> ELSE f.dir

\* rel_dirs[i] = '' where it was '.'; the empty string is the empty path.
NormRelDir(d) == IF d = <<Seg(".")>> THEN <<>> ELSE d

\* os.path.join on relative components: '' adds no segment.
OsPathJoin(a, b) == a \o b

\* out_dirs = [os.path.join(out_root, d) for d in rel_dirs]
OutDir(rel_dir) == OsPathJoin(OutRoot, rel_dir)

\* model_list_path = os.path.join(out_dir, file_name, parse_method, 'model.json')
ModelListPathNoMethod(out_dir, name, method) ==
    OsPathJoin(out_dir, <<name, <<"model", "json">> >>)

ModelListPath(out_dir, name, method) ==
    OsPathJoin(out_dir, <<name, Seg(method), <<"model", "json">> >>)

\* prepare_env: local_parent_dir and local_image_dir
LocalMdDir(output_dir, pdf_file_name, method) ==
    OsPathJoin(output_dir, <<pdf_file_name, Seg(method)>>)

LocalImageDir(output_dir, pdf_file_name, method) ==
    OsPathJoin(LocalMdDir(output_dir, pdf_file_name, method), <<Seg("images")>>)

\* The path and all its ancestors.
Prefixes(p) == {SubSeq(p, 1, k) : k \in 1..Len(p)}

\* os.makedirs(p, exist_ok=True)
MakeDirs(dirs, p) == dirs \cup Prefixes(p)

\* DiskReaderWriter(parent).write(content, path): the file parent/path.
WriterPath(parent, fname) == OsPathJoin(parent, <<fname>>)

\* ------------------------------------------------------------- contents
\* What pipe.pipe_analyze() leaves in pipe.model_list: one record per page of the
\* document, here two pages, one page, or none, by the length of the file's name.
PipeAnalyze(pdf_bytes) ==
    CASE Len(pdf_bytes) = 3 -> <<"p1", "p2">>
      [] Len(pdf_bytes) = 4 -> <<>>
      [] OTHER -> <<"p1">>

\* json.dumps(list): the list between brackets.
JsonDumps(l) == <<"[">> \o l \o <<"]">>

\* Whether json.loads accepts the text.
JsonValid(c) == Len(c) >= 2 /\ c[1] = "[" /\ c[Len(c)] = "]"

\* json.loads(text) of an accepted text.
JsonLoads(c) == SubSeq(c, 2, Len(c) - 1)

\* A truncated model.json.
Garbled == <<"[", "q2">>

\* read_fn(path): the bytes of the file.
ReadFn(f) == <<"%PDF">> \o f.name

\* What the pipeline can do to the list it was given while it parses.
PipeMutations(l) == {l, l \o <<"dirty">>}

\* ------------------------------------------------------------- do_parse's choices
\* The parse_method values do_parse is called with.
Methods == {"auto", "txt", "ocr", "text"}

\* The parse_method values main is called with: its default, an accepted one, another.
MainMethods == {"auto", "txt", "text"}

\* The pipeline class do_parse constructs for a parse method; "none": the else branch.
SelectPipeText(method) ==
    CASE method = "auto" -> "UNIPipe"
      [] method = "text" -> "TXTPipe"
      [] method = "ocr" -> "OCRPipe"
      [] OTHER -> "none"

SelectPipe(method) ==
    CASE method = "auto" -> "UNIPipe"
      [] method = "txt" -> "TXTPipe"
      [] method = "ocr" -> "OCRPipe"
      [] OTHER -> "none"

\* if len(model_list) == 0
NeedAnalyzeAlways(l) == TRUE

NeedAnalyze(l) == Len(l) = 0

\* if model_config.__use_inside_model__
MayAnalyzeAlways(flag) == TRUE

MayAnalyze(flag) == flag

\* Where an Exception raised while a document is processed goes: main's
\* `except Exception` clause, or out of a do_parse that was called directly.
OnExceptionUncaught(c) == "raised"

OnException(c) == IF c = "main" THEN "except" ELSE "raised"

\* Where the SystemExit of exit() goes: it is no Exception, so nothing catches it.
OnExitCaught(c) == IF c = "main" THEN "except" ELSE "exited"

OnExit(c) == "exited"

\* json.loads(open(model_list_path).read()): the list, or a JSONDecodeError.
LoadCacheLenient(c) ==
    IF JsonValid(c) THEN [ok |-> TRUE, value |-> JsonLoads(c)]
    ELSE [ok |-> TRUE, value |-> <<>>]

LoadCache(c) ==
    IF JsonValid(c) THEN [ok |-> TRUE, value |-> JsonLoads(c)]
    ELSE [ok |-> FALSE, value |-> <<>>]

\* json.dumps(orig_model_list, ...): what is written to model.json.
ModelJsonOfPipe(orig, pipe_list) == JsonDumps(pipe_list)

ModelJsonContent(orig, pipe_list) == JsonDumps(orig)

\* do_parse's f_draw_* and f_dump_* parameters that are set.
AllFlags == {"draw_span", "draw_layout", "dump_md", "dump_middle_json",
             "dump_model_json", "dump_orig_pdf", "dump_content_list"}

NoFile == [dir |-> <<>>, name |-> <<>>]

NoPipe == [variant |-> "none", model_list |-> <<>>]

NoArgs == [output_dir |-> <<>>, pdf_file_name |-> <<>>, pdf_bytes |-> <<>>, flags |-> {}]

\* The output directory main computes for a file (lines 139-148).
DocOutDir(f, isdir) == OutDir(IF isdir THEN NormRelDir(RelPath(f)) ELSE NormRelDir(<<Seg(".")>>))

\* ------------------------------------------------------------- initial states
\* The input trees: at most MaxDocs PDF files, and the file n.txt.
Trees ==
    {T \cup {f \in Universe : ~GlobMatch(f)} :
        T \in {S \in SUBSET Glob(Universe) : Cardinality(S) <= MaxDocs}}

\* The lists a model.json present before the first run can hold.
CachedLists == {<<>>, <<"q2", "q1">>}

\* A model.json present before the first run: a dumped list, or a truncated file.
InitialCaches ==
    {[valid |-> TRUE, records |-> l] : l \in CachedLists}
        \cup {[valid |-> FALSE, records |-> <<>>]}

CacheText(c) == IF c.valid THEN JsonDumps(c.records) ELSE Garbled

InitCommon ==
    /\ exit_code = 0
    /\ file_paths = <<>>
    /\ out_dirs = <<>>
    /\ result = <<>>
    /\ idx = 0
    /\ printed = <<>>
    /\ elapsed = 0
    /\ orig_model_list = <<>>
    /\ pipe = NoPipe
    /\ trace = <<>>
    /\ attempted = {}
    /\ raised = {}
    /\ dp_started = {}
    /\ cache_state = "none"
    /\ cache_loaded = <<>>
    /\ failed_at = "none"
    /\ created_files = {}
    /\ created_dirs = {}
    /\ wrote = {}
    /\ faults = 0
    /\ runs = 1

\* Before main(file_path, out_root, parse_method) is called: an input directory or
\* one input file, and an output root that is empty or holds one model.json of an
\* earlier run of one of the documents.
Init ==
    /\ InitCommon
    /\ pc = "main"
    /\ caller = "main"
    /\ parse_method \in MainMethods
    /\ use_inside_model = FALSE
    /\ model_list = <<>>
    /\ args = NoArgs
    /\ \/ /\ in_tree \in Trees
          /\ file_path = [isdir |-> TRUE, file |-> NoFile]
       \/ \E f \in Universe :
            /\ in_tree = {f}
            /\ file_path = [isdir |-> FALSE, file |-> f]
    /\ \/ /\ fs_files = <<>>
          /\ fs_dirs = {}
          /\ prev_model = <<>>
       \/ \E f \in (IF file_path.isdir THEN Glob(in_tree) ELSE in_tree), c \in InitialCaches :
            LET p == ModelListPath(DocOutDir(f, file_path.isdir), Stem(f.name), parse_method)
            IN  /\ fs_files = (p :> CacheText(c))
                /\ fs_dirs = Prefixes(SubSeq(p, 1, Len(p) - 1))
                /\ prev_model = IF c.valid THEN (f :> c.records) ELSE <<>>

\* ------------------------------------------------------------- outcomes of a step
Ok(next) ==
    /\ pc' = next
    /\ UNCHANGED <<failed_at, raised, faults, exit_code>>

\* An exception raised by the code's own logic at `stage`.
Throw(stage) ==
    /\ pc' = OnException(caller)
    /\ failed_at' = stage
    /\ raised' = IF caller = "main" THEN raised \cup {idx} ELSE raised
    /\ UNCHANGED <<faults, exit_code>>

\* An exception raised by the environment (file system, pipeline) at `stage`.
Fault(stage) ==
    /\ faults < MaxFaults
    /\ faults' = faults + 1
    /\ pc' = OnException(caller)
    /\ failed_at' = stage
    /\ raised' = IF caller = "main" THEN raised \cup {idx} ELSE raised
    /\ UNCHANGED exit_code

\* exit(code)
Exit(code) ==
    /\ pc' = OnExit(caller)
    /\ exit_code' = code
    /\ UNCHANGED <<failed_at, raised, faults>>

cfgVars == <<in_tree, file_path, parse_method, caller, runs>>
fsVars == <<fs_files, fs_dirs, created_files, created_dirs, wrote>>
mainVars == <<file_paths, out_dirs, result, idx, printed, attempted, prev_model>>
cacheVars == <<cache_state, cache_loaded>>

\* md_writer.write(content, path): the file is created or overwritten.
Write(path, content) ==
    /\ fs_files' = [p \in DOMAIN fs_files \cup {path} |->
                        IF p = path THEN content ELSE fs_files[p]]
    /\ created_files' = IF path \in DOMAIN fs_files THEN created_files
                        ELSE created_files \cup {path}
    /\ wrote' = wrote \cup {[path |-> path, idx |-> idx]}
    /\ UNCHANGED <<fs_dirs, created_dirs>>

\* ------------------------------------------------------------- main
\* The document the loop is at.
PdfPath == file_paths[idx]

\* Lines 133-151: set the model flags, list the files, compute the output directories.
MainEnter ==
    /\ pc = "main"
    /\ use_inside_model' = TRUE
    /\ IF file_path.isdir
       THEN \E order \in Orders(Glob(in_tree)) :
                /\ file_paths' = order
                /\ out_dirs' = [i \in 1..Len(order) |-> OutDir(NormRelDir(RelPath(order[i])))]
       ELSE /\ file_paths' = <<file_path.file>>
            /\ out_dirs' = <<OutDir(NormRelDir(<<Seg(".")>>))>>
    /\ result' = <<>>
    /\ idx' = 1
    /\ pc' = IF Len(file_paths') = 0 THEN "summary" ELSE "iter"
    /\ UNCHANGED <<cfgVars, fsVars, cacheVars, exit_code, printed, model_list, elapsed,
                   args, orig_model_list, pipe, trace, attempted, raised, dp_started,
                   failed_at, prev_model, faults>>

\* Lines 153-156: begin_time, file_name = Path(pdf_path).stem, pdf_data = read_fn(pdf_path).
IterBegin ==
    /\ pc = "iter"
    /\ attempted' = attempted \cup {idx}
    /\ elapsed' = 0
    /\ \/ /\ args' = [output_dir |-> out_dirs[idx],
                      pdf_file_name |-> Stem(PdfPath.name),
                      pdf_bytes |-> ReadFn(PdfPath),
                      flags |-> AllFlags]
          /\ Ok("cache")
       \/ /\ args' = [output_dir |-> out_dirs[idx],
                      pdf_file_name |-> Stem(PdfPath.name),
                      pdf_bytes |-> <<>>,
                      flags |-> AllFlags]
          /\ Fault("read_fn")
    /\ UNCHANGED <<cfgVars, fsVars, cacheVars, use_inside_model, file_paths, out_dirs,
                   result, idx, printed, model_list, orig_model_list, pipe, trace,
                   dp_started, prev_model>>

\* Lines 158-161: model_list = [], or the list model.json holds where the file exists.
CacheLookup ==
    /\ pc = "cache"
    /\ elapsed' = elapsed + 1
    /\ LET p == ModelListPath(args.output_dir, args.pdf_file_name, parse_method)
       IN  IF p \notin DOMAIN fs_files
           THEN /\ model_list' = <<>>
                /\ cache_state' = "absent"
                /\ cache_loaded' = <<>>
                /\ Ok("dp_env")
           ELSE \/ /\ cache_state' = IF JsonValid(fs_files[p]) THEN "hit" ELSE "corrupt"
                   /\ IF LoadCache(fs_files[p]).ok
                      THEN /\ model_list' = LoadCache(fs_files[p]).value
                           /\ cache_loaded' = LoadCache(fs_files[p]).value
                           /\ Ok("dp_env")
                      ELSE /\ model_list' = <<>>
                           /\ cache_loaded' = <<>>
                           /\ Throw("json.loads")
                \/ /\ cache_state' = "unreadable"
                   /\ model_list' = <<>>
                   /\ cache_loaded' = <<>>
                   /\ Fault("open")
    /\ UNCHANGED <<cfgVars, fsVars, mainVars, use_inside_model, args, orig_model_list,
                   pipe, trace, dp_started>>

\* The loop moves to the next document, or ends; the locals of the iteration are dead.
NextDoc ==
    /\ idx' = idx + 1
    /\ pc' = IF idx < Len(file_paths) THEN "iter" ELSE "summary"
    /\ trace' = <<>>
    /\ cache_state' = "none"
    /\ cache_loaded' = <<>>
    /\ failed_at' = "none"
    /\ elapsed' = 0
    /\ args' = NoArgs
    /\ model_list' = <<>>
    /\ orig_model_list' = <<>>
    /\ pipe' = NoPipe

\* Lines 169-170: duration = time.time() - begin_time; result.append([pdf_path, duration]).
MainRecord ==
    /\ pc = "dp_ret"
    /\ caller = "main"
    /\ result' = Append(result, [path |-> PdfPath, duration |-> elapsed])
    /\ prev_model' = [f \in DOMAIN prev_model \cup {PdfPath} |->
                          IF f = PdfPath THEN orig_model_list ELSE prev_model[f]]
    /\ NextDoc
    /\ UNCHANGED <<cfgVars, fsVars, exit_code, use_inside_model, file_paths, out_dirs,
                   printed, attempted, raised, dp_started, faults>>

\* The handler that appends a row for the failed document as well.
MainExceptRecords ==
    /\ pc = "except"
    /\ result' = Append(result, [path |-> PdfPath, duration |-> elapsed])
    /\ prev_model' = [f \in DOMAIN prev_model \ {PdfPath} |-> prev_model[f]]
    /\ NextDoc
    /\ UNCHANGED <<cfgVars, fsVars, exit_code, use_inside_model, file_paths, out_dirs,
                   printed, attempted, raised, dp_started, faults>>

\* Lines 171-172: except Exception as e: logger.exception(e).
MainExcept ==
    /\ pc = "except"
    /\ prev_model' = [f \in DOMAIN prev_model \ {PdfPath} |-> prev_model[f]]
    /\ NextDoc
    /\ UNCHANGED <<cfgVars, fsVars, exit_code, use_inside_model, file_paths, out_dirs,
                   result, printed, attempted, raised, dp_started, faults>>

\* Lines 175-176: one line per row of result.
MainSummary ==
    /\ pc = "summary"
    /\ printed' = result
    /\ pc' = "done"
    /\ UNCHANGED <<cfgVars, fsVars, cacheVars, exit_code, use_inside_model, file_paths,
                   out_dirs, result, idx, model_list, elapsed, args, orig_model_list,
                   pipe, trace, attempted, raised, dp_started, failed_at, prev_model,
                   faults>>

\* The driver is run again with the same arguments, on the output root as it now is.
MainAgain ==
    /\ pc = "done"
    /\ runs < MaxRuns
    /\ runs' = runs + 1
    /\ pc' = "main"
    /\ file_paths' = <<>>
    /\ out_dirs' = <<>>
    /\ result' = <<>>
    /\ idx' = 0
    /\ printed' = <<>>
    /\ attempted' = {}
    /\ raised' = {}
    /\ dp_started' = {}
    /\ created_files' = {}
    /\ created_dirs' = {}
    /\ wrote' = {}
    /\ model_list' = <<>>
    /\ orig_model_list' = <<>>
    /\ pipe' = NoPipe
    /\ args' = NoArgs
    /\ elapsed' = 0
    /\ UNCHANGED <<in_tree, file_path, parse_method, caller, exit_code, use_inside_model,
                   fs_files, fs_dirs, cacheVars, trace, failed_at, prev_model, faults>>

\* ------------------------------------------------------------- do_parse
dpVars == <<cfgVars, mainVars, cacheVars, use_inside_model, model_list, args>>

MdDir == LocalMdDir(args.output_dir, args.pdf_file_name, parse_method)

ImageDir == LocalImageDir(args.output_dir, args.pdf_file_name, parse_method)

\* Lines 54-60: orig_model_list = copy.deepcopy(model_list); prepare_env creates the
\* image directory and the artifact directory; the two writers.
DoParseEnter ==
    /\ pc = "dp_env"
    /\ elapsed' = elapsed + 1
    /\ orig_model_list' = model_list
    /\ dp_started' = IF caller = "main" THEN dp_started \cup {idx} ELSE dp_started
    /\ trace' = <<>>
    /\ pipe' = NoPipe
    /\ \/ /\ fs_dirs' = MakeDirs(MakeDirs(fs_dirs, ImageDir), MdDir)
          /\ created_dirs' = created_dirs \cup (MakeDirs(MakeDirs({}, ImageDir), MdDir) \ fs_dirs)
          /\ Ok("dp_select")
       \/ \E k \in 0..(Len(ImageDir) - 1) :
            \* os.makedirs raises after it has created some of the ancestors
            /\ fs_dirs' = fs_dirs \cup Prefixes(SubSeq(ImageDir, 1, k))
            /\ created_dirs' = created_dirs \cup (Prefixes(SubSeq(ImageDir, 1, k)) \ fs_dirs)
            /\ Fault("prepare_env")
    /\ UNCHANGED <<dpVars, fs_files, created_files, wrote>>

\* Lines 62-71: the pipeline for the parse method, or exit(1).
DoParseSelect ==
    /\ pc = "dp_select"
    /\ elapsed' = elapsed + 1
    /\ IF SelectPipe(parse_method) # "none"
       THEN /\ pipe' = [variant |-> SelectPipe(parse_method), model_list |-> model_list]
            /\ Ok("dp_classify")
       ELSE /\ pipe' = NoPipe
            /\ Exit(1)
    /\ UNCHANGED <<dpVars, fsVars, orig_model_list, trace, dp_started>>

\* Line 73: pipe.pipe_classify().
DoParseClassify ==
    /\ pc = "dp_classify"
    /\ elapsed' = elapsed + 1
    /\ trace' = Append(trace, "classify")
    /\ \/ Ok("dp_model")
       \/ Fault("pipe_classify")
    /\ UNCHANGED <<dpVars, fsVars, orig_model_list, pipe, dp_started>>

\* Lines 75-81: with an empty model_list, pipe.pipe_analyze() and a copy of its
\* result, or exit(2) without the inside model.
DoParseModel ==
    /\ pc = "dp_model"
    /\ elapsed' = elapsed + 1
    /\ IF NeedAnalyze(model_list)
       THEN IF MayAnalyze(use_inside_model)
            THEN /\ trace' = Append(trace, "analyze")
                 /\ \/ /\ pipe' = [pipe EXCEPT !.model_list = PipeAnalyze(args.pdf_bytes)]
                       /\ orig_model_list' = PipeAnalyze(args.pdf_bytes)
                       /\ Ok("dp_parse")
                    \/ /\ UNCHANGED <<pipe, orig_model_list>>
                       /\ Fault("pipe_analyze")
            ELSE /\ UNCHANGED <<pipe, orig_model_list, trace>>
                 /\ Exit(2)
       ELSE /\ UNCHANGED <<pipe, orig_model_list, trace>>
            /\ Ok("dp_parse")
    /\ UNCHANGED <<dpVars, fsVars, dp_started>>

\* Lines 83-84: pipe.pipe_parse(), which owns the list it was given.
DoParseParse ==
    /\ pc = "dp_parse"
    /\ elapsed' = elapsed + 1
    /\ trace' = Append(trace, "parse")
    /\ \/ \E m \in PipeMutations(pipe.model_list) :
             /\ pipe' = [pipe EXCEPT !.model_list = m]
             /\ Ok("dp_draw")
       \/ /\ UNCHANGED pipe
          /\ Fault("pipe_parse")
    /\ UNCHANGED <<dpVars, fsVars, orig_model_list, dp_started>>

\* Lines 85-88: draw_layout_bbox and draw_span_bbox, each under its flag.
DoParseDraw ==
    /\ pc = "dp_draw"
    /\ elapsed' = elapsed + 1
    /\ IF {"draw_layout", "draw_span"} \cap args.flags # {}
       THEN /\ trace' = Append(trace, "draw_bbox")
            /\ \/ Ok("dp_mk_md")
               \/ Fault("draw_bbox")
       ELSE /\ UNCHANGED trace
            /\ Ok("dp_mk_md")
    /\ UNCHANGED <<dpVars, fsVars, orig_model_list, pipe, dp_started>>

\* Lines 90-92: md_content = pipe.pipe_mk_markdown(...).
DoParseMkMarkdown ==
    /\ pc = "dp_mk_md"
    /\ elapsed' = elapsed + 1
    /\ trace' = Append(trace, "mk_markdown")
    /\ \/ Ok("dp_dump_md")
       \/ Fault("pipe_mk_markdown")
    /\ UNCHANGED <<dpVars, fsVars, orig_model_list, pipe, dp_started>>

\* if flag: md_writer.write(content, path=fname), then the next statement.
Dump(flag, fname, content, next) ==
    /\ elapsed' = elapsed + 1
    /\ IF flag \in args.flags
       THEN \/ /\ Write(WriterPath(MdDir, fname), content)
               /\ trace' = Append(trace, flag)
               /\ Ok(next)
            \/ /\ UNCHANGED <<fsVars, trace>>
               /\ Fault("write")
       ELSE /\ UNCHANGED <<fsVars, trace>>
            /\ Ok(next)
    /\ UNCHANGED <<dpVars, orig_model_list, pipe, dp_started>>

\* Lines 93-98: <pdf_file_name>.md
DoParseDumpMd ==
    /\ pc = "dp_dump_md"
    /\ Dump("dump_md", args.pdf_file_name \o <<"md">>, <<"markdown">>, "dp_dump_middle")

\* Lines 100-105: middle.json
DoParseDumpMiddleJson ==
    /\ pc = "dp_dump_middle"
    /\ Dump("dump_middle_json", <<"middle", "json">>, <<"pdf_mid_data">>, "dp_dump_model")

\* Lines 107-112: model.json
DoParseDumpModelJson ==
    /\ pc = "dp_dump_model"
    /\ Dump("dump_model_json", <<"model", "json">>,
            ModelJsonContent(orig_model_list, pipe.model_list), "dp_dump_pdf")

\* Lines 114-119: origin.pdf
DoParseDumpOrigPdf ==
    /\ pc = "dp_dump_pdf"
    /\ Dump("dump_orig_pdf", <<"origin", "pdf">>, args.pdf_bytes, "dp_mk_uni")

\* Line 121: content_list = pipe.pipe_mk_uni_format(...).
DoParseMkUniFormat ==
    /\ pc = "dp_mk_uni"
    /\ elapsed' = elapsed + 1
    /\ trace' = Append(trace, "mk_uni_format")
    /\ \/ Ok("dp_dump_content")
       \/ Fault("pipe_mk_uni_format")
    /\ UNCHANGED <<dpVars, fsVars, orig_model_list, pipe, dp_started>>

\* Lines 122-129: content_list.json, and do_parse returns.
DoParseDumpContentList ==
    /\ pc = "dp_dump_content"
    /\ Dump("dump_content_list", <<"content_list", "json">>, <<"content_list">>, "dp_ret")

\* do_parse returns to a direct caller.
DirectReturn ==
    /\ pc = "dp_ret"
    /\ caller = "direct"
    /\ pc' = "returned"
    /\ UNCHANGED <<dpVars, fsVars, exit_code, elapsed, orig_model_list, pipe, trace,
                   raised, dp_started, failed_at, faults>>

\* ------------------------------------------------------------- specifications
Next ==
    \/ MainEnter
    \/ IterBegin
    \/ CacheLookup
    \/ DoParseEnter
    \/ DoParseSelect
    \/ DoParseClassify
    \/ DoParseModel
    \/ DoParseParse
    \/ DoParseDraw
    \/ DoParseMkMarkdown
    \/ DoParseDumpMd
    \/ DoParseDumpMiddleJson
    \/ DoParseDumpModelJson
    \/ DoParseDumpOrigPdf
    \/ DoParseMkUniFormat
    \/ DoParseDumpContentList
    \/ MainRecord
    \/ MainExcept
    \/ MainSummary

\* One run of main on a file or a directory.
Spec == Init /\ [][Next]_vars

\* main run MaxRuns times with the same arguments on an input of one document.
InitRerun ==
    /\ Init
    /\ file_path.isdir => Cardinality(Glob(in_tree)) = 1

NextRerun ==
    \/ Next
    \/ MainAgain

SpecRerun == InitRerun /\ [][NextRerun]_vars

\* The flag settings do_parse is called with directly.
FlagSets == {AllFlags, {}, AllFlags \ {"draw_span", "draw_layout"}}

\* do_parse(output_dir, pdf_file_name, pdf_bytes, model_list, parse_method, ...) called
\* directly, with the inside-model flag set or not.
InitDoParse ==
    /\ InitCommon
    /\ pc = "dp_env"
    /\ caller = "direct"
    /\ parse_method \in Methods
    /\ use_inside_model \in BOOLEAN
    /\ model_list \in CachedLists
    /\ in_tree = {}
    /\ file_path = [isdir |-> FALSE, file |-> NoFile]
    /\ args \in [output_dir : {OutRoot, OutDir(<<Seg("a")>>)},
                 pdf_file_name : {<<"x">>},
                 pdf_bytes : {<<"%PDF", "x", "pdf">>, <<"%PDF", "x", "tar", "pdf">>},
                 flags : FlagSets]
    /\ fs_files = <<>>
    /\ fs_dirs = {}
    /\ prev_model = <<>>

NextDoParse ==
    \/ DoParseEnter
    \/ DoParseSelect
    \/ DoParseClassify
    \/ DoParseModel
    \/ DoParseParse
    \/ DoParseDraw
    \/ DoParseMkMarkdown
    \/ DoParseDumpMd
    \/ DoParseDumpMiddleJson
    \/ DoParseDumpModelJson
    \/ DoParseDumpOrigPdf
    \/ DoParseMkUniFormat
    \/ DoParseDumpContentList
    \/ DirectReturn

SpecDoParse == InitDoParse /\ [][NextDoParse]_vars

\* ------------------------------------------------------------- properties
\* The parse methods do_parse's error message names.
AcceptedMethods == {"auto", "txt", "ocr"}

InTrace(e) == \E k \in 1..Len(trace) : trace[k] = e

\* The positions of the loop main has left without an exception.
Completed == {i \in 1..Len(file_paths) : i < idx /\ i \notin raised}

ModelJsonPath == ModelListPath(args.output_dir, args.pdf_file_name, parse_method)

HasRow(f) == \E k \in 1..Len(result) : result[k].path = f

\* C1: an exception raised while document i is processed (read_fn, the model.json
\* load, anything inside do_parse) is caught by main: it never leaves main and never
\* ends the process, the loop goes on behind i, and when the loop ends every
\* document has been attempted.
C1_ExceptionIsolated ==
    /\ pc # "raised"
    /\ \A i \in raised : idx > i \/ (idx = i /\ pc = "except")
    /\ pc = "exited" => (failed_at = "none" /\ idx \notin raised)
    /\ \A j \in 1..Len(file_paths) : j < idx => j \in attempted
    /\ pc \in {"summary", "done"} => attempted = 1..Len(file_paths)

\* C1: a document behind one that raised has been processed to its summary row.
C1_Witness ==
    /\ pc = "done"
    /\ \E i \in raised : \E j \in Completed : j > i /\ HasRow(file_paths[j])

\* C2 as claimed: a model.json that exists and holds a JSON list, whatever the list,
\* keeps pipe_analyze from being invoked for the document.
C2_AnyCachedListSkipsInference ==
    cache_state = "hit" => ~InTrace("analyze")

\* C2: a model.json that exists and holds a non-empty JSON list keeps pipe_analyze
\* from being invoked for the document.
C2_NonEmptyCacheSkipsInference ==
    (cache_state = "hit" /\ cache_loaded # <<>>) => ~InTrace("analyze")

\* C2: do_parse has run to its end on a cached non-empty list.
C2_Witness ==
    /\ pc = "dp_ret"
    /\ caller = "main"
    /\ cache_state = "hit"
    /\ cache_loaded # <<>>
    /\ InTrace("parse")

\* C3 as claimed: a model.json that is unreadable or no valid JSON is taken as no
\* cache: the lookup does not fail the document, which goes on with an empty list.
C3_CorruptCacheIsNoCache ==
    cache_state \in {"corrupt", "unreadable"} =>
        (failed_at \notin {"json.loads", "open"} /\ pc # "except")

\* C3: a model.json that is unreadable or no valid JSON fails the document: the load
\* raises, main's handler catches it, do_parse is not entered for the document,
\* nothing is inferred or written for it and it gets no summary row.
C3_CorruptCacheFailsDocument ==
    cache_state \in {"corrupt", "unreadable"} =>
        /\ pc = "except"
        /\ failed_at \in {"json.loads", "open"}
        /\ idx \in raised
        /\ idx \notin dp_started
        /\ trace = <<>>
        /\ \A w \in wrote : w.idx # idx
        /\ ~HasRow(PdfPath)

\* C3: the lookup found a truncated model.json.
C3_Witness ==
    /\ cache_state = "corrupt"
    /\ pc = "except"
    /\ ModelJsonPath \in DOMAIN fs_files
    /\ ~JsonValid(fs_files[ModelJsonPath])

\* C4 as claimed: when the process ends in exit(), nothing has been created below the
\* output root, neither a file nor a directory, no summary was printed and no later
\* document was attempted.
C4_ExitLeavesNothing ==
    pc = "exited" =>
        /\ created_files = {}
        /\ created_dirs = {}
        /\ printed = <<>>
        /\ attempted = 1..idx

\* C4: with a parse method that is not accepted, the first do_parse that gets to
\* choose its pipeline ends the process with status 1: the exit is not caught, no
\* pipeline stage runs, no later document is attempted, no summary is printed and no
\* file has been written; but prepare_env has created that document's artifact
\* directory and its images directory.
C4_UnknownMethodExits ==
    parse_method \notin AcceptedMethods =>
        /\ created_files = {}
        /\ wrote = {}
        /\ trace = <<>>
        /\ result = <<>>
        /\ printed = <<>>
        /\ exit_code # 0 => pc = "exited"
        /\ pc = "exited" =>
            /\ exit_code = 1
            /\ idx \in dp_started
            /\ attempted = 1..idx
            /\ MdDir \in fs_dirs
            /\ ImageDir \in fs_dirs
            /\ ImageDir \in created_dirs

\* C4: the process has ended in exit(1) at the second document of a batch.
C4_Witness ==
    /\ pc = "exited"
    /\ exit_code = 1
    /\ idx = 2
    /\ created_dirs # {}

\* The stages at which the arguments of the current do_parse call are set.
InDoParse ==
    pc \in {"dp_env", "dp_select", "dp_classify", "dp_model", "dp_parse", "dp_draw",
            "dp_mk_md", "dp_dump_md", "dp_dump_middle", "dp_dump_model", "dp_dump_pdf",
            "dp_mk_uni", "dp_dump_content", "dp_ret"}

\* out_root/relative_subdir/document_name/parse_method, written out for the document
\* the loop is at: no sub-directory for a single-file input or a file of the root.
ExpectedArtifactDir ==
    <<Seg("out")>>
        \o (IF file_path.isdir THEN PdfPath.dir ELSE <<>>)
        \o <<SubSeq(PdfPath.name, 1, Len(PdfPath.name) - 1)>>
        \o <<Seg(parse_method)>>

\* C5: the artifact directory of a document is out_root/relative_subdir/
\* document_name/parse_method; main looks model.json up at the path at which do_parse
\* writes it; and a run of a document that follows a completed run of the same
\* document with the same method finds the model.json that run wrote.
C5_CachePathIsArtifactPath ==
    (InDoParse \/ pc = "cache") =>
        /\ MdDir = ExpectedArtifactDir
        /\ ImageDir = ExpectedArtifactDir \o <<Seg("images")>>
        /\ ModelJsonPath = WriterPath(MdDir, <<"model", "json">>)
        /\ (InDoParse /\ ~InTrace("dump_model_json") /\ PdfPath \in DOMAIN prev_model) =>
              /\ cache_state = "hit"
              /\ cache_loaded = prev_model[PdfPath]

\* C5: the second run of doc.pdf given as a single file finds under /out/doc/auto the
\* model.json the first run wrote there after inference.
C5_Witness ==
    /\ runs = 2
    /\ pc = "dp_env"
    /\ ~file_path.isdir
    /\ MdDir = <<Seg("out"), <<"x">>, Seg("auto")>>
    /\ cache_state = "hit"
    /\ cache_loaded = <<"p1", "p2">>

\* C6: when model.json holds a non-empty list R before a run of the document, main
\* loads R, and the model.json the run writes holds R again, whatever the pipeline
\* did to the list it was given.
C6_CacheRoundTrip ==
    (/\ InDoParse
     /\ caller = "main"
     /\ PdfPath \in DOMAIN prev_model
     /\ prev_model[PdfPath] # <<>>) =>
        /\ model_list = prev_model[PdfPath]
        /\ pc # "dp_env" => orig_model_list = prev_model[PdfPath]
        /\ ~InTrace("analyze")
        /\ JsonValid(fs_files[ModelJsonPath])
        /\ JsonLoads(fs_files[ModelJsonPath]) = prev_model[PdfPath]

\* C6: a second run has rewritten model.json from the two-record list that was there
\* before the first run, after the pipeline appended to the list it was given.
C6_Witness ==
    /\ runs = 2
    /\ pc = "dp_ret"
    /\ cache_loaded = <<"q2", "q1">>
    /\ pipe.model_list = <<"q2", "q1", "dirty">>
    /\ InTrace("dump_model_json")
    /\ fs_files[ModelJsonPath] = <<"[", "q2", "q1", "]">>

IsPrefix(s, t) == Len(s) <= Len(t) /\ SubSeq(t, 1, Len(s)) = s

IsCompleted(f) == \E i \in Completed : file_paths[i] = f

RowPaths == [k \in 1..Len(result) |-> result[k].path]

\* C7, the state part: the rows of the summary are the documents whose processing
\* completed, in discovery order, one row each; nothing is printed before the loop
\* has attempted every document, and what is printed is the summary.
C7_SummaryRows ==
    /\ RowPaths = SelectSeq(file_paths, IsCompleted)
    /\ \A k \in 1..Len(result) : result[k].duration >= 0
    /\ \A i \in raised : ~HasRow(file_paths[i])
    /\ printed # <<>> => pc = "done"
    /\ pc = "done" => (printed = result /\ attempted = 1..Len(file_paths))

\* C7: the run summary is append-only, and at every moment as C7_SummaryRows says.
C7_SummaryAppendOnly ==
    /\ []C7_SummaryRows
    /\ [][IsPrefix(result, result')]_vars

\* C7: a batch of two has ended with a row for the second document only.
C7_Witness ==
    /\ pc = "done"
    /\ Len(file_paths) = 2
    /\ raised = {1}
    /\ printed = <<[path |-> file_paths[2], duration |-> result[1].duration]>>

ArtifactDirOf(i) == LocalMdDir(out_dirs[i], Stem(file_paths[i].name), parse_method)

\* C10: the documents of a batch have pairwise distinct artifact directories; no
\* path is written for two documents; and the model.json a document's lookup reads
\* was written by no other document of the batch.
C10_ArtifactDirsDistinct ==
    /\ \A i, j \in 1..Len(file_paths) : i # j => ArtifactDirOf(i) # ArtifactDirOf(j)
    /\ \A a, b \in wrote : a.path = b.path => a.idx = b.idx
    /\ (InDoParse \/ pc = "cache") => \A w \in wrote : w.path = ModelJsonPath => w.idx = idx

\* C10: x.pdf and a/x.pdf of one input directory have both been processed, and each
\* directory holds its own model.json.
C10_Witness ==
    /\ pc = "done"
    /\ file_path.isdir
    /\ Len(result) = 2
    /\ file_paths[1].name = file_paths[2].name
    /\ \A i \in 1..2 : WriterPath(ArtifactDirOf(i), <<"model", "json">>) \in created_files

\* The stages of do_parse behind the choice of the pipeline.
PipelineStages ==
    {"dp_classify", "dp_model", "dp_parse", "dp_draw", "dp_mk_md", "dp_dump_md",
     "dp_dump_middle", "dp_dump_model", "dp_dump_pdf", "dp_mk_uni", "dp_dump_content",
     "dp_ret", "returned"}

\* C8 as claimed: auto, text and ocr select the automatic, the text and the OCR
\* pipeline, and only other values reach the unknown-parse-method exit.
C8_TextSelectsTxtPipe ==
    /\ (parse_method \in {"auto", "text", "ocr"} /\ pc \in PipelineStages) =>
          pipe.variant = (CASE parse_method = "auto" -> "UNIPipe"
                            [] parse_method = "text" -> "TXTPipe"
                            [] parse_method = "ocr" -> "OCRPipe"
                            [] OTHER -> "none")
    /\ exit_code = 1 => parse_method \notin {"auto", "text", "ocr"}

\* C8: auto, txt and ocr select UNIPipe, TXTPipe and OCRPipe, each of the three gets
\* its pipeline constructed and never reaches the unknown-parse-method exit, and
\* every other value reaches that exit before any pipeline stage.
C8_MethodSelectsPipe ==
    /\ pipe.variant # "none" =>
          pipe.variant = (CASE parse_method = "auto" -> "UNIPipe"
                            [] parse_method = "txt" -> "TXTPipe"
                            [] parse_method = "ocr" -> "OCRPipe"
                            [] OTHER -> "none")
    /\ exit_code = 1 => (parse_method \notin {"auto", "txt", "ocr"} /\ pc = "exited")
    /\ pc \in PipelineStages => (pipe.variant # "none" /\ parse_method \in {"auto", "txt", "ocr"})
    /\ parse_method \notin {"auto", "txt", "ocr"} => (trace = <<>> /\ pipe.variant = "none")

\* C8: do_parse called with txt has returned after running the TXTPipe.
C8_Witness ==
    /\ pc = "returned"
    /\ parse_method = "txt"
    /\ pipe.variant = "TXTPipe"
    /\ InTrace("classify")

Before(a, b) ==
    \E i, j \in 1..Len(trace) : i < j /\ trace[i] = a /\ trace[j] = b

\* The trace entries of the five artifact files.
ArtifactWrites ==
    {"dump_md", "dump_middle_json", "dump_model_json", "dump_orig_pdf", "dump_content_list"}

\* C9: in one do_parse call classification is the first pipeline call; pipe_analyze
\* is called at most once, right behind classification and before parsing, and it is
\* called exactly when the given model list is empty and the inside-model flag is
\* set; with an empty list and the flag unset the call ends in exit(2) and parsing
\* never runs; parsing precedes Markdown generation; and no artifact file is written
\* before both have run.
C9_StageOrder ==
    /\ trace # <<>> => trace[1] = "classify"
    /\ \A k \in 1..Len(trace) : trace[k] = "analyze" => k = 2
    /\ InTrace("analyze") => (model_list = <<>> /\ use_inside_model)
    /\ (InTrace("parse") /\ model_list = <<>> /\ use_inside_model) => Before("analyze", "parse")
    /\ (model_list = <<>> /\ ~use_inside_model) => (~InTrace("analyze") /\ ~InTrace("parse"))
    /\ (model_list = <<>> /\ ~use_inside_model) =>
          pc \in {"dp_env", "dp_select", "dp_classify", "dp_model", "exited", "raised"}
    /\ exit_code = 2 =>
          (model_list = <<>> /\ ~use_inside_model /\ trace = <<"classify">> /\ pc = "exited")
    /\ \A k \in 1..Len(trace) : trace[k] = "mk_markdown" => \E i \in 1..(k - 1) : trace[i] = "parse"
    /\ \A k \in 1..Len(trace) : trace[k] \in ArtifactWrites =>
          /\ \E i \in 1..(k - 1) : trace[i] = "parse"
          /\ \E i \in 1..(k - 1) : trace[i] = "mk_markdown"
    /\ DOMAIN fs_files # {} => Before("parse", "mk_markdown")
    /\ \A a \in ArtifactWrites : Cardinality({k \in 1..Len(trace) : trace[k] = a}) <= 1

\* C9: a call with an empty list and the flag set has returned after inference, with
\* its five artifact files written.
C9_Witness ==
    /\ pc = "returned"
    /\ Before("classify", "analyze")
    /\ Before("analyze", "parse")
    /\ Cardinality(DOMAIN fs_files) = 5

====
